---------------------------- MODULE Spec2Model ----------------------------
(***************************************************************************)
(* ArbitrageEdge: the settings loader, the sport catalog and the request   *)
(* models of src/app/config.py, and database_exists of                     *)
(* src/app/db/create_db.py.                                                *)
(*                                                                         *)
(* Python values are modelled as tagged records so that a string, a list,  *)
(* an integer, None, a Sports member and a Sport record stay distinct:     *)
(* pydantic's validation depends on the dynamic type of what it is given.  *)
(***************************************************************************)
EXTENDS Integers, Sequences, FiniteSets, TLC

VARIABLES
    environ,    \* os.environ: variable name -> <<>> (unset) or <<value>>
    dotenv,     \* the .env file, same shape
    pc,         \* import of app.config: "start", "loaded" or "failed"
    settings,   \* the module-level settings object, NoSettings until loaded
    assign,     \* outcome of the last attribute assignment on settings
    last,       \* the last request model construction and its outcome
    pg_database,\* datname column of the server's pg_database
    reachable,  \* whether the Postgres endpoint accepts connections
    dbpc,       \* per caller: position inside database_exists
    db_name,    \* per caller: the argument of the running call
    conn,       \* per caller: connections the call currently holds
    used,       \* per caller: connections the call has acquired so far
    rows,       \* per caller: rows of the executed query
    found,      \* per caller: whether pg_database held db_name when queried
    retval      \* per caller: "none", "True", "False" or the raised error

cfgvars == <<environ, dotenv, pc, settings, assign, last>>
dbvars  == <<pg_database, reachable, dbpc, db_name, conn, used, rows, found, retval>>
vars    == <<environ, dotenv, pc, settings, assign, last,
             pg_database, reachable, dbpc, db_name, conn, used, rows, found, retval>>

---------------------------------------------------------------------------
(* Python values *)

Val(t, s, l, i, b) == [t |-> t, s |-> s, l |-> l, i |-> i, b |-> b]

Absent      == Val("absent", "", <<>>, 0, FALSE)   \* key not in the mapping
None        == Val("None", "", <<>>, 0, FALSE)
Str(s)      == Val("str", s, <<>>, 0, FALSE)
List(l)     == Val("list", "", l, 0, FALSE)
Num(i)      == Val("int", "", <<>>, i, FALSE)
Bool(b)     == Val("bool", "", <<>>, 0, b)
Member(n)   == Val("Sports", n, <<>>, 0, FALSE)    \* Sports.<n>
SportRec(n) == Val("Sport", n, <<>>, 0, FALSE)     \* a Sport record, key = Sports.<n>

---------------------------------------------------------------------------
(* class Sports(Enum): member name |-> value *)

Sports ==
    [ americanfootball_cfl |-> "americanfootball_cfl",
      americanfootball_ncaaf |-> "americanfootball_ncaaf",
      americanfootball_ncaaf_championship_winner |-> "americanfootball_ncaaf_championship_winner",
      americanfootball_nfl |-> "americanfootball_nfl",
      americanfootball_nfl_preseason |-> "americanfootball_nfl_preseason",
      americanfootball_nfl_super_bowl_winner |-> "americanfootball_nfl_super_bowl_winner",
      americanfootball_ufl |-> "americanfootball_ufl",
      baseball_milb |-> "baseball_milb",
      baseball_mlb |-> "baseball_mlb",
      baseball_mlb_preseason |-> "baseball_mlb_preseason",
      baseball_mlb_world_series_winner |-> "baseball_mlb_world_series_winner",
      basketball_ncaa |-> "baseball_ncaa",
      baskbetball_nba |-> "basketball_nba",
      basketball_nba_championship_winner |-> "basketball_nba_championship_winner",
      basketball_nba_preseason |-> "basketball_nba_preseason",
      basketball_nba_summer_league |-> "basketball_nba_summer_league",
      basketball_ncaab |-> "basketball_ncaab",
      basketball_ncaab_championship_winner |-> "basketball_ncaab_championship_winner",
      boxing_boxing |-> "boxing_boxing",
      golf_masters_tournament_winner |-> "golf_masters_tournament_winner",
      golf_pga_championship_winner |-> "golf_pga_championship_winner",
      golf_the_open_championship_winner |-> "golf_the_open_championship_winner",
      golf_us_open_winner |-> "golf_us_open_winner",
      icehockey_nhl |-> "icehockey_nhl",
      icehockey_nhl_championship_winner |-> "icehockey_nhl_championship_winner",
      icehockey_nhl_preseason |-> "icehockey_nhl_preseason",
      mma_mixed_martial_arts |-> "mma_mixed_martial_arts",
      politics_us_presidential_election_winner |-> "politics_us_presidential_election_winner",
      rugbyleague_nrl |-> "rugbyleague_nrl",
      rugbyleague_nrl_state_of_origin |-> "rugbyleague_nrl_state_of_origin",
      rugbyunion_six_nations |-> "rugbyunion_six_nations",
      soccer_africa_cup_of_nations |-> "soccer_africa_cup_of_nations",
      soccer_concacaf_gold_cup |-> "soccer_concacaf_gold_cup",
      soccer_concacaf_leagues_cup |-> "soccer_concacaf_leagues_cup",
      soccer_efl_champ |-> "soccer_efl_champ",
      soccer_england_efl_cup |-> "soccer_england_efl_cup",
      soccer_epl |-> "soccer_epl",
      soccer_fa_cup |-> "soccer_fa_cup",
      soccer_fifa_club_world_cup |-> "soccer_fifa_club_world_cup",
      soccer_fifa_world_cup |-> "soccer_fifa_world_cup",
      soccer_fifa_world_cup_qualifiers_europe |-> "soccer_fifa_world_cup_qualifiers_europe",
      soccer_fifa_world_cup_qualifiers_south_america |-> "soccer_fifa_world_cup_qualifiers_south_america",
      soccer_fifa_world_cup_winner |-> "soccer_fifa_world_cup_winner",
      soccer_fifa_world_cup_womens |-> "soccer_fifa_world_cup_womens",
      soccer_france_ligue_one |-> "soccer_france_ligue_one",
      soccer_germany_bundesliga |-> "soccer_germany_bundesliga",
      soccer_italy_serie_a |-> "soccer_italy_serie_a",
      soccer_spain_la_liga |-> "soccer_spain_la_liga",
      soccer_uefa_champs_league |-> "soccer_uefa_champs_league",
      soccer_uefa_champs_league_qualification |-> "soccer_uefa_champs_league_qualification",
      soccer_uefa_euro_qualification |-> "soccer_uefa_euro_qualification",
      soccer_uefa_europa_conference_league |-> "soccer_uefa_europa_conference_league",
      soccer_uefa_europa_league |-> "soccer_uefa_europa_league",
      soccer_uefa_european_championship |-> "soccer_uefa_european_championship",
      soccer_uefa_nations_league |-> "soccer_uefa_nations_league",
      soccer_usa_mls |-> "soccer_usa_mls",
      tennis_atp_aus_open_singles |-> "tennis_atp_aus_open_singles",
      tennis_atp_canadian_open |-> "tennis_atp_canadian_open",
      tennis_atp_china_open |-> "tennis_atp_china_open",
      tennis_atp_cincinnati_open |-> "tennis_atp_cincinnati_open",
      tennis_atp_dubai |-> "tennis_atp_dubai",
      tennis_atp_french_open |-> "tennis_atp_french_open",
      tennis_arp_indian_wells |-> "tennis_atp_indian_wells",
      tennis_atp_italian_open |-> "tennis_atp_italian_open",
      tennis_atp_madrid_open |-> "tennis_atp_madrid_open",
      tennis_atp_miami_open |-> "tennis_atp_miami_open",
      tennis_atp_monte_carlo_masters |-> "tennis_atp_monte_carlo_masters",
      tennis_atp_paris_masters |-> "tennis_atp_paris_masters",
      tennis_atp_qatar_open |-> "tennis_atp_qatar_open",
      tennis_atp_shanghai_masters |-> "tennis_atp_shanghai_masters",
      tennis_atp_us_open |-> "tennis_atp_us_open",
      tennis_atp_wimbledon |-> "tennis_atp_wimbledon",
      tennis_wta_aus_open_singles |-> "tennis_wta_aus_open_singles",
      tennis_wta_canadian_open |-> "tennis_wta_canadian_open",
      tennis_wta_china_open |-> "tennis_wta_china_open",
      tennis_wta_cincinnati_open |-> "tennis_wta_cincinnati_open",
      tennis_wta_dubai |-> "tennis_wta_dubai",
      tennis_wta_french_open |-> "tennis_wta_french_open",
      tennis_wta_indian_wells |-> "tennis_wta_indian_wells",
      tennis_wta_italian_open |-> "tennis_wta_italian_open",
      tennis_wta_madrid_open |-> "tennis_wta_madrid_open",
      tennis_wta_miami_open |-> "tennis_wta_miami_open",
      tennis_wta_qatar_opem |-> "tennis_wta_qatar_open",
      tennis_wta_us_open |-> "tennis_wta_us_open",
      tennis_wta_wimbledon |-> "tennis_wta_wimbledon",
      tennis_wta_wuhan_open |-> "tennis_wta_wuhan_open",
      upcoming |-> "upcoming" ]

SportsNames  == DOMAIN Sports
SportsValues == {Sports[n] : n \in SportsNames}

\* Sports(value): the member with that value (values are pairwise distinct)
SportsByValue(s) == CHOOSE n \in SportsNames : Sports[n] = s

---------------------------------------------------------------------------
(* class Settings(BaseSettings) and settings = Settings() *)

SettingsFields ==
    {"project_name", "version", "description", "api_v1_str", "debug", "odds_api_key"}

\* the name each field is read under: its alias, else its own name
\* (case_sensitive = True, no env_prefix)
EnvName(f) == IF f = "odds_api_key" THEN "ODDS_API_KEY" ELSE f

EnvNames == {EnvName(f) : f \in SettingsFields}

SettingsDefault(f) ==
    CASE f = "project_name" -> <<Str("ArbitrageEngine")>>
      [] f = "version"      -> <<Str("0.1.0")>>
      [] f = "description"  -> <<Str("Odds Engine/API for calculating sports betting odds")>>
      [] f = "api_v1_str"   -> <<Str("/api/v1")>>
      [] f = "debug"        -> <<Bool(FALSE)>>
      [] OTHER              -> <<>>              \* Field(...): required

\* variant: no field is frozen
IsFrozenOff(f) == FALSE

\* frozen=True is given for odds_api_key only; model_config sets no frozen
IsFrozen(f) == f = "odds_api_key"

BoolTrue  == {"1", "true", "t", "yes", "y", "on"}
BoolFalse == {"0", "false", "f", "no", "n", "off"}

\* the value of one field from a source string: <<value>> or <<>> (invalid)
ParseSetting(f, s) ==
    IF f = "debug"
    THEN IF s \in BoolTrue THEN <<Bool(TRUE)>>
         ELSE IF s \in BoolFalse THEN <<Bool(FALSE)>>
         ELSE <<>>
    ELSE <<Str(s)>>

\* variant: odds_api_key falls back to an empty string
SettingLenient(f, env, file) ==
    IF env[EnvName(f)] # <<>> THEN ParseSetting(f, env[EnvName(f)][1])
    ELSE IF file[EnvName(f)] # <<>> THEN ParseSetting(f, file[EnvName(f)][1])
    ELSE IF f = "odds_api_key" THEN <<Str("")>>
    ELSE SettingsDefault(f)

\* one field of Settings(): process environment first, then the .env file,
\* then the declared default; <<>> when the field cannot be populated
SettingValue(f, env, file) ==
    IF env[EnvName(f)] # <<>> THEN ParseSetting(f, env[EnvName(f)][1])
    ELSE IF file[EnvName(f)] # <<>> THEN ParseSetting(f, file[EnvName(f)][1])
    ELSE SettingsDefault(f)

NoSettings == [f \in SettingsFields |-> Absent]

\* Settings(): a validation error unless every field is populated
Settings(env, file) ==
    IF \E f \in SettingsFields : SettingValue(f, env, file) = <<>>
    THEN NoSettings
    ELSE [f \in SettingsFields |-> SettingValue(f, env, file)[1]]

---------------------------------------------------------------------------
(* The request models: one field descriptor per declared field, in        *)
(* declaration order.  key is the name the field is populated from: its   *)
(* alias when it has one (populate_by_name is off), else its own name.    *)
(* default is <<>> for Field(...) and <<value>> otherwise; the default is *)
(* the value written in the source, whatever the annotation says.         *)

Fld(name, key, type, default) ==
    [name |-> name, key |-> key, type |-> type, default |-> default,
     ge |-> <<>>, le |-> <<>>, validator |-> ""]

ApiKey(key) == Fld("api_key", "api_key", "str", <<Str(key)>>)

Odds(key) ==
    << Fld("sport", "sport", "Sports", <<>>),
       ApiKey(key),
       Fld("regions", "region", "list[str]", <<Str("us")>>),
       Fld("markets", "markets", "Optional[str]", <<Str("")>>),
       Fld("dateFormat", "date_format", "Optional[list[str]]", <<Str("iso")>>),
       Fld("oddsFormat", "odds_format", "Optional[str]", <<Str("")>>),
       Fld("eventIds", "event_id", "Optional[list[str]]", <<Str("")>>),
       Fld("bookmakers", "bookmaker", "Optional[str]", <<Str("")>>),
       Fld("commenceTimeFrom", "commenceTimeFrom", "Optional[str]", <<Str("")>>),
       Fld("commenceTimeTo", "commenceTimeTo", "Optional[str]", <<Str("")>>),
       Fld("includeLinks", "includeLinks", "Optional[bool]", <<Bool(FALSE)>>),
       Fld("includeSids", "includeSids", "Optional[bool]", <<Bool(FALSE)>>),
       Fld("includeBetLimits", "includeBetLimits", "Optional[bool]", <<Bool(FALSE)>>),
       Fld("includeRotationNumbers", "includeRotationNumbers", "Optional[bool]", <<Bool(FALSE)>>) >>

Scores(key) ==
    << Fld("sport", "sport", "Sports", <<>>),
       ApiKey(key),
       [name |-> "daysFrom", key |-> "daysFrom", type |-> "Optional[int]",
        default |-> <<None>>, ge |-> <<1>>, le |-> <<3>>,
        validator |-> "validate_days_from"],
       Fld("dateFormat", "date_format", "Optional[list[str]]", <<Str("iso")>>),
       Fld("eventIds", "event_id", "Optional[list[str]]", <<Str("")>>) >>

Events(key) ==
    << Fld("sport", "sport", "Sports", <<>>),
       ApiKey(key),
       Fld("dateFormat", "date_format", "Optional[list[str]]", <<Str("iso")>>),
       Fld("eventIds", "event_id", "Optional[list[str]]", <<Str("")>>),
       Fld("commenceTimeFrom", "commenceTimeFrom", "Optional[str]", <<Str("")>>),
       Fld("commenceTimeTo", "commenceTimeTo", "Optional[str]", <<Str("")>>),
       Fld("includeRotationNumbers", "includeRotationNumbers", "Optional[bool]", <<Bool(FALSE)>>) >>

EventOdds(key) ==
    << Fld("sport", "sport", "Sports", <<>>),
       ApiKey(key),
       Fld("regions", "region", "list[str]", <<Str("us")>>),
       Fld("markets", "markets", "Optional[str]", <<Str("")>>),
       Fld("dateFormat", "date_format", "Optional[list[str]]", <<Str("iso")>>),
       Fld("oddsFormat", "odds_format", "Optional[str]", <<Str("")>>),
       Fld("eventId", "event_id", "str", <<>>),
       Fld("bookmakers", "bookmaker", "Optional[str]", <<Str("")>>),
       Fld("commenceTimeFrom", "commenceTimeFrom", "Optional[str]", <<Str("")>>),
       Fld("commenceTimeTo", "commenceTimeTo", "Optional[str]", <<Str("")>>),
       Fld("includeLinks", "includeLinks", "Optional[bool]", <<Bool(FALSE)>>),
       Fld("includeSids", "includeSids", "Optional[bool]", <<Bool(FALSE)>>),
       Fld("includeBetLimits", "includeBetLimits", "Optional[bool]", <<Bool(FALSE)>>),
       Fld("includeRotationNumbers", "includeRotationNumbers", "Optional[bool]", <<Bool(FALSE)>>),
       Fld("includeMultipliers", "includeMultipliers", "Optional[bool]", <<Bool(FALSE)>>) >>

EventMarkets(key) ==
    << Fld("sport", "sport", "Sports", <<>>),
       Fld("eventId", "event_id", "str", <<>>),
       ApiKey(key),
       Fld("regions", "region", "list[str]", <<Str("us")>>),
       Fld("bookmakers", "bookmaker", "Optional[str]", <<Str("")>>),
       Fld("dateFormat", "date_format", "Optional[list[str]]", <<Str("iso")>>) >>

Participants(key) ==
    << Fld("sport", "sport", "Sports", <<>>),
       ApiKey(key) >>

HistoricalOdds(key) ==
    << Fld("sport", "sport", "Sports", <<>>),
       ApiKey(key),
       Fld("regions", "region", "list[str]", <<Str("us")>>),
       Fld("markets", "markets", "Optional[str]", <<Str("")>>),
       Fld("dateFormat", "date_format", "Optional[list[str]]", <<Str("iso")>>),
       Fld("oddsFormat", "odds_format", "Optional[str]", <<Str("")>>),
       Fld("eventIds", "event_id", "Optional[list[str]]", <<Str("")>>),
       Fld("bookmakers", "bookmaker", "Optional[str]", <<Str("")>>),
       Fld("commenceTimeFrom", "commenceTimeFrom", "Optional[str]", <<Str("")>>),
       Fld("commenceTimeTo", "commenceTimeTo", "Optional[str]", <<Str("")>>),
       Fld("includeLinks", "includeLinks", "Optional[bool]", <<Bool(FALSE)>>),
       Fld("includeSids", "includeSids", "Optional[bool]", <<Bool(FALSE)>>),
       Fld("includeBetLimits", "includeBetLimits", "Optional[bool]", <<Bool(FALSE)>>),
       Fld("includeRotationNumbers", "includeRotationNumbers", "Optional[bool]", <<Bool(FALSE)>>),
       Fld("date", "date", "str", <<>>) >>

HistoricalEvents(key) ==
    << Fld("sport", "sport", "Sports", <<>>),
       ApiKey(key),
       Fld("date", "date", "str", <<>>),
       Fld("dateFormat", "date_format", "Optional[list[str]]", <<Str("iso")>>),
       Fld("eventIds", "event_id", "Optional[list[str]]", <<Str("")>>),
       Fld("commenceTimeFrom", "commenceTimeFrom", "Optional[str]", <<Str("")>>),
       Fld("commenceTimeTo", "commenceTimeTo", "Optional[str]", <<Str("")>>),
       Fld("includeRotationNumbers", "includeRotationNumbers", "Optional[bool]", <<Bool(FALSE)>>) >>

HistoricalEventOdds(key) ==
    << Fld("sport", "sport", "Sports", <<>>),
       ApiKey(key),
       Fld("regions", "region", "list[str]", <<Str("us")>>),
       Fld("eventId", "event_id", "str", <<>>),
       Fld("date", "date", "str", <<>>),
       Fld("markets", "markets", "Optional[str]", <<Str("")>>),
       Fld("dateFormat", "date_format", "Optional[list[str]]", <<Str("iso")>>),
       Fld("oddsFormat", "odds_format", "Optional[str]", <<Str("")>>),
       Fld("bookmakers", "bookmaker", "Optional[str]", <<Str("")>>),
       Fld("commenceTimeFrom", "commenceTimeFrom", "Optional[str]", <<Str("")>>),
       Fld("commenceTimeTo", "commenceTimeTo", "Optional[str]", <<Str("")>>),
       Fld("includeLinks", "includeLinks", "Optional[bool]", <<Bool(FALSE)>>),
       Fld("includeSids", "includeSids", "Optional[bool]", <<Bool(FALSE)>>),
       Fld("includeBetLimits", "includeBetLimits", "Optional[bool]", <<Bool(FALSE)>>),
       Fld("includeRotationNumbers", "includeRotationNumbers", "Optional[bool]", <<Bool(FALSE)>>),
       Fld("includeMultipliers", "includeMultipliers", "Optional[bool]", <<Bool(FALSE)>>) >>

Models ==
    {"Odds", "Scores", "Events", "EventOdds", "EventMarkets", "Participants",
     "HistoricalOdds", "HistoricalEvents", "HistoricalEventOdds"}

ModelFields(m, key) ==
    CASE m = "Odds"                -> Odds(key)
      [] m = "Scores"              -> Scores(key)
      [] m = "Events"              -> Events(key)
      [] m = "EventOdds"           -> EventOdds(key)
      [] m = "EventMarkets"        -> EventMarkets(key)
      [] m = "Participants"        -> Participants(key)
      [] m = "HistoricalOdds"      -> HistoricalOdds(key)
      [] m = "HistoricalEvents"    -> HistoricalEvents(key)
      [] m = "HistoricalEventOdds" -> HistoricalEventOdds(key)

---------------------------------------------------------------------------
(* Construction of a request model: pydantic's validation of the keyword  *)
(* mapping against the field descriptors.                                 *)

Ok(v)    == [kind |-> "ok", v |-> v, err |-> ""]
Err(e)   == [kind |-> "error", v |-> Absent, err |-> e]
Crash(e) == [kind |-> "crash", v |-> Absent, err |-> e]

\* variant: the member's name is taken instead of its value
set_sport_from_enum_name(values) ==
    IF values["sport"].t = "Sport"
    THEN [values EXCEPT !["sport"] = Str(values["sport"].s)]
    ELSE values

\* @model_validator(mode="before") set_sport_from_enum, the same in all nine
\* classes: a Sport instance under "sport" is replaced by sport.key.value
set_sport_from_enum(values) ==
    IF values["sport"].t = "Sport"
    THEN [values EXCEPT !["sport"] = Str(Sports[values["sport"].s])]
    ELSE values

\* by-value lookup of the enumeration; a member passes as it is
ValidateSports(v) ==
    IF v.t = "str" /\ v.s \in SportsValues THEN Ok(Member(SportsByValue(v.s)))
    ELSE IF v.t = "Sports" THEN Ok(v)
    ELSE Err("enum")

\* variant: gt / lt in place of ge / le
CheckBoundsStrict(fd, i) ==
    IF fd.ge # <<>> /\ ~(i > fd.ge[1]) THEN Err("greater_than")
    ELSE IF fd.le # <<>> /\ ~(i < fd.le[1]) THEN Err("less_than")
    ELSE Ok(Num(i))

\* ge / le of the field, applied to an integer
CheckBounds(fd, i) ==
    IF fd.ge # <<>> /\ ~(i >= fd.ge[1]) THEN Err("greater_than_equal")
    ELSE IF fd.le # <<>> /\ ~(i <= fd.le[1]) THEN Err("less_than_equal")
    ELSE Ok(Num(i))

\* validation of a supplied value against the annotation (lax mode)
ValidateType(fd, type, v) ==
    CASE type = "Sports"    -> ValidateSports(v)
      [] type = "str"       -> IF v.t = "str" THEN Ok(v) ELSE Err("string_type")
      [] type = "list[str]" -> IF v.t = "list" THEN Ok(v) ELSE Err("list_type")
      [] type = "bool"      -> IF v.t = "bool" THEN Ok(v) ELSE Err("bool_type")
      [] type = "int"       -> IF v.t = "int" THEN CheckBounds(fd, v.i)
                               ELSE IF v.t = "bool"
                                    THEN CheckBounds(fd, IF v.b THEN 1 ELSE 0)
                               ELSE Err("int_type")

Inner(type) ==
    CASE type = "Optional[str]"       -> "str"
      [] type = "Optional[list[str]]" -> "list[str]"
      [] type = "Optional[int]"       -> "int"
      [] type = "Optional[bool]"      -> "bool"
      [] OTHER                        -> ""

ValidateAnnotated(fd, v) ==
    IF Inner(fd.type) # ""
    THEN IF v.t = "None" THEN Ok(None) ELSE ValidateType(fd, Inner(fd.type), v)
    ELSE ValidateType(fd, fd.type, v)

\* @field_validator("daysFrom") of Scores, run on the validated value:
\* 1 <= None raises TypeError, which pydantic lets through
validate_days_from(daysFrom) ==
    IF daysFrom.t = "None" THEN Crash("TypeError")
    ELSE IF ~(1 <= daysFrom.i /\ daysFrom.i <= 3) THEN Err("value_error")
    ELSE Ok(daysFrom)

\* one field: missing, defaulted (the default is not validated), or validated
FieldResult(fd, values) ==
    LET raw == values[fd.key] IN
    IF raw = Absent
    THEN IF fd.default = <<>> THEN Err("missing") ELSE Ok(fd.default[1])
    ELSE LET typed == ValidateAnnotated(fd, raw) IN
         IF typed.kind = "ok" /\ fd.validator = "validate_days_from"
         THEN validate_days_from(typed.v)
         ELSE typed

NoRecord == [n \in {} |-> Absent]

\* Model(**input): fields are validated in declaration order and their
\* errors collected; an exception that is no validation error ends the
\* construction at once and reaches the caller as it is
Construct(m, input, key) ==
    LET fields  == ModelFields(m, key)
        values  == set_sport_from_enum(input)
        res(i)  == FieldResult(fields[i], values)
        idx     == 1..Len(fields)
        crashes == {i \in idx : res(i).kind = "crash"}
        errors  == {[loc |-> fields[i].key, type |-> res(i).err] :
                       i \in {j \in idx : res(j).kind = "error"}}
    IN  IF crashes # {}
        THEN [status |-> res(CHOOSE i \in crashes : \A j \in crashes : i <= j).err,
              errors |-> {}, record |-> NoRecord]
        ELSE IF errors # {}
        THEN [status |-> "ValidationError", errors |-> errors, record |-> NoRecord]
        ELSE [status |-> "ok", errors |-> {},
              record |-> [n \in {fields[i].name : i \in idx} |->
                            res(CHOOSE i \in idx : fields[i].name = n).v]]

---------------------------------------------------------------------------
(* The keyword mappings request models are constructed from *)

MaxExtraKeys == 2     \* optional keys a mapping carries
MaxDaysFrom  == 4     \* daysFrom is drawn from 0..MaxDaysFrom and None

InputKeys ==
    {"sport", "api_key", "region", "regions", "markets", "date_format",
     "dateFormat", "odds_format", "oddsFormat", "event_id", "eventId",
     "eventIds", "bookmaker", "bookmakers", "commenceTimeFrom",
     "commenceTimeTo", "includeLinks", "includeSids", "includeBetLimits",
     "includeRotationNumbers", "includeMultipliers", "daysFrom", "date"}

NotInCatalog ==
    {"", "not_a_sport", "SOCCER_EPL", "soccer", "basketball_ncaa",
     "baskbetball_nba", "tennis_arp_indian_wells", "tennis_wta_qatar_opem"}

SportInputs ==
    {Absent} \cup {Str(s) : s \in SportsValues \cup NotInCatalog}
             \cup {SportRec(n) : n \in SportsNames}
             \cup {Num(7), None}

FewSportInputs ==
    {Absent, Str("soccer_epl"), Str("not_a_sport"), SportRec("baskbetball_nba")}

Pair(k, v) == [k |-> k, v |-> v]

ExtraPairs ==
    {Pair("api_key", Str("caller-key"))}
    \cup {Pair("region", v) : v \in {Str("us"), List(<<"us", "uk">>)}}
    \cup {Pair("regions", List(<<"eu">>))}
    \cup {Pair("date_format", v) : v \in {Str("iso"), List(<<"iso">>)}}
    \cup {Pair("odds_format", Str("decimal"))}
    \cup {Pair("event_id", v) : v \in {Str(""), List(<<"e1">>)}}
    \cup {Pair("eventId", Str("e2"))}
    \cup {Pair("bookmaker", Str("bk"))}
    \cup {Pair("daysFrom", v) : v \in {None} \cup {Num(i) : i \in 0..MaxDaysFrom}}

OnlySport(v) == [k \in InputKeys |-> IF k = "sport" THEN v ELSE Absent]

\* sport together with the other required fields of the event and
\* historical models
WithRequired(v) ==
    [OnlySport(v) EXCEPT !["event_id"] = Str("e1"),
                         !["date"] = Str("2024-01-01T00:00:00Z")]

RECURSIVE WithExtras(_, _)
WithExtras(base, n) ==
    IF n = 0 THEN base
    ELSE LET prev == WithExtras(base, n - 1) IN
         prev \cup {[x[1] EXCEPT ![x[2].k] = x[2].v] :
                      x \in {y \in prev \X ExtraPairs : y[1][y[2].k] = Absent}}

Inputs ==
    {OnlySport(v) : v \in SportInputs}
    \cup WithExtras({OnlySport(v) : v \in FewSportInputs}
                    \cup {WithRequired(v) : v \in FewSportInputs}, MaxExtraKeys)

ExtraKeys(input) == {k \in InputKeys \ {"sport"} : input[k] # Absent}

---------------------------------------------------------------------------
(* Import of app.config, attribute assignment on settings, construction *)

MaxCallers == 2      \* coroutines that may be inside database_exists
Callers == 1..MaxCallers
DbNames == {"postgres", "arbitrage"}

Unset == [n \in EnvNames |-> <<>>]

AssignValues == {Str("changed"), Bool(TRUE)}

NoAssign == [field |-> "", value |-> Absent, outcome |-> ""]
NoResult == [model |-> "", input |-> OnlySport(Absent),
             result |-> [status |-> "", errors |-> {}, record |-> NoRecord]]

DbIdle ==
    /\ pg_database = {}
    /\ reachable = TRUE
    /\ dbpc = [c \in Callers |-> "idle"]
    /\ db_name = [c \in Callers |-> ""]
    /\ conn = [c \in Callers |-> 0]
    /\ used = [c \in Callers |-> 0]
    /\ rows = [c \in Callers |-> <<>>]
    /\ found = [c \in Callers |-> FALSE]
    /\ retval = [c \in Callers |-> "none"]

CfgStart ==
    /\ pc = "start"
    /\ settings = NoSettings
    /\ assign = NoAssign
    /\ last = NoResult

\* script start: only ODDS_API_KEY varies between runs
Init ==
    /\ environ \in {[Unset EXCEPT !["ODDS_API_KEY"] = v] : v \in {<<>>, <<"env-key">>}}
    /\ dotenv \in {[Unset EXCEPT !["ODDS_API_KEY"] = v] : v \in {<<>>, <<"file-key">>}}
    /\ CfgStart
    /\ DbIdle

\* settings = Settings() at import; a failure ends the import, and the
\* classes below that line are never defined
LoadSettings ==
    /\ pc = "start"
    /\ settings' = Settings(environ, dotenv)
    /\ pc' = IF settings' = NoSettings THEN "failed" ELSE "loaded"
    /\ UNCHANGED <<environ, dotenv, assign, last>>
    /\ UNCHANGED dbvars

\* Model(**input) for one of the nine request models; the api_key default
\* was read from settings when the class was defined
ConstructModel ==
    /\ pc = "loaded"
    /\ last = NoResult
    /\ \E m \in Models, input \in Inputs :
          last' = [model |-> m, input |-> input,
                   result |-> Construct(m, input, settings["odds_api_key"].s)]
    /\ UNCHANGED <<environ, dotenv, pc, settings, assign>>
    /\ UNCHANGED dbvars

\* the request has been sent and the record dropped
Discard ==
    /\ last # NoResult
    /\ last' = NoResult
    /\ UNCHANGED <<environ, dotenv, pc, settings, assign>>
    /\ UNCHANGED dbvars

\* settings.<field> = value.  BaseModel.__setattr__: a frozen field raises
\* a validation error (frozen_field), a name that is no field raises
\* ValueError, and any other field takes the value without validation
\* (validate_assignment is off)
SetAttr ==
    /\ pc = "loaded"
    /\ \E f \in SettingsFields \cup {"no_such_field"}, v \in AssignValues :
          IF f \notin SettingsFields
          THEN /\ assign' = [field |-> f, value |-> v, outcome |-> "no_field"]
               /\ UNCHANGED settings
          ELSE IF IsFrozen(f)
          THEN /\ assign' = [field |-> f, value |-> v, outcome |-> "frozen_field"]
               /\ UNCHANGED settings
          ELSE /\ assign' = [field |-> f, value |-> v, outcome |-> "ok"]
               /\ settings' = [settings EXCEPT ![f] = v]
    /\ UNCHANGED <<environ, dotenv, pc, last>>
    /\ UNCHANGED dbvars

Next == LoadSettings \/ ConstructModel \/ Discard

Spec == Init /\ [][Next]_vars

\* the settings loader with every source it reads varying
InitSettings ==
    /\ environ \in {[Unset EXCEPT !["ODDS_API_KEY"] = k, !["debug"] = d] :
                       k \in {<<>>, <<"env-key">>},
                       d \in {<<>>, <<"true">>, <<"maybe">>}}
    /\ dotenv \in {[Unset EXCEPT !["ODDS_API_KEY"] = k, !["project_name"] = n] :
                      k \in {<<>>, <<"file-key">>},
                      n \in {<<>>, <<"FromFile">>}}
    /\ CfgStart
    /\ DbIdle

NextSettings == LoadSettings \/ SetAttr

SpecSettings == InitSettings /\ [][NextSettings]_vars

---------------------------------------------------------------------------
(* database_exists(db_name), src/app/db/create_db.py *)

\* SELECT 1 FROM pg_database WHERE datname = :db_name
Select1(catalog, name) == IF name \in catalog THEN <<1>> ELSE <<>>

\* result.scalar(): first column of the first row, <<>> for None
Scalar(r) == IF r = <<>> THEN <<>> ELSE <<r[1]>>

\* variant: the test is inverted
IsNone(r) == IF Scalar(r) = <<>> THEN "True" ELSE "False"

\* result.scalar() is not None
IsNotNone(r) == IF Scalar(r) # <<>> THEN "True" ELSE "False"

\* __aexit__ of engine.connect(): the connection is closed
Release(held) == held - 1

InitDb ==
    /\ environ = [Unset EXCEPT !["ODDS_API_KEY"] = <<"env-key">>]
    /\ dotenv = Unset
    /\ CfgStart
    /\ pg_database \in SUBSET DbNames
    /\ reachable \in BOOLEAN
    /\ dbpc = [c \in Callers |-> "idle"]
    /\ db_name = [c \in Callers |-> ""]
    /\ conn = [c \in Callers |-> 0]
    /\ used = [c \in Callers |-> 0]
    /\ rows = [c \in Callers |-> <<>>]
    /\ found = [c \in Callers |-> FALSE]
    /\ retval = [c \in Callers |-> "none"]

\* await database_exists(name) is entered
Call(c) ==
    /\ dbpc[c] = "idle"
    /\ \E name \in DbNames : db_name' = [db_name EXCEPT ![c] = name]
    /\ dbpc' = [dbpc EXCEPT ![c] = "connect"]
    /\ UNCHANGED <<pg_database, reachable, conn, used, rows, found, retval>>
    /\ UNCHANGED cfgvars

\* async with engine.connect() as conn: the connection is acquired, or the
\* connection error leaves the function
Connect(c) ==
    /\ dbpc[c] = "connect"
    /\ IF reachable
       THEN /\ conn' = [conn EXCEPT ![c] = @ + 1]
            /\ used' = [used EXCEPT ![c] = @ + 1]
            /\ dbpc' = [dbpc EXCEPT ![c] = "execute"]
            /\ UNCHANGED retval
       ELSE /\ dbpc' = [dbpc EXCEPT ![c] = "raised"]
            /\ retval' = [retval EXCEPT ![c] = "ConnectionError"]
            /\ UNCHANGED <<conn, used>>
    /\ UNCHANGED <<pg_database, reachable, db_name, rows, found>>
    /\ UNCHANGED cfgvars

\* await conn.execute(...): the rows, or an error that leaves the block
\* through __aexit__
Execute(c) ==
    /\ dbpc[c] = "execute"
    /\ IF reachable
       THEN /\ rows' = [rows EXCEPT ![c] = Select1(pg_database, db_name[c])]
            /\ found' = [found EXCEPT ![c] = db_name[c] \in pg_database]
            /\ dbpc' = [dbpc EXCEPT ![c] = "return"]
            /\ UNCHANGED <<conn, retval>>
       ELSE /\ conn' = [conn EXCEPT ![c] = Release(@)]
            /\ dbpc' = [dbpc EXCEPT ![c] = "raised"]
            /\ retval' = [retval EXCEPT ![c] = "DBAPIError"]
            /\ UNCHANGED <<rows, found>>
    /\ UNCHANGED <<pg_database, reachable, db_name, used>>
    /\ UNCHANGED cfgvars

\* return result.scalar() is not None, leaving the block through __aexit__
Return(c) ==
    /\ dbpc[c] = "return"
    /\ retval' = [retval EXCEPT ![c] = IsNotNone(rows[c])]
    /\ conn' = [conn EXCEPT ![c] = Release(@)]
    /\ dbpc' = [dbpc EXCEPT ![c] = "done"]
    /\ UNCHANGED <<pg_database, reachable, db_name, used, rows, found>>
    /\ UNCHANGED cfgvars

\* the caller has taken the value or the exception
Resume(c) ==
    /\ dbpc[c] \in {"done", "raised"}
    /\ dbpc' = [dbpc EXCEPT ![c] = "idle"]
    /\ db_name' = [db_name EXCEPT ![c] = ""]
    /\ used' = [used EXCEPT ![c] = 0]
    /\ rows' = [rows EXCEPT ![c] = <<>>]
    /\ found' = [found EXCEPT ![c] = FALSE]
    /\ retval' = [retval EXCEPT ![c] = "none"]
    /\ UNCHANGED <<pg_database, reachable, conn>>
    /\ UNCHANGED cfgvars

\* the server and its catalog change on their own
ServerToggle ==
    /\ reachable' = ~reachable
    /\ UNCHANGED <<pg_database, dbpc, db_name, conn, used, rows, found, retval>>
    /\ UNCHANGED cfgvars

CreateDatabase ==
    /\ \E n \in DbNames \ pg_database : pg_database' = pg_database \cup {n}
    /\ UNCHANGED <<reachable, dbpc, db_name, conn, used, rows, found, retval>>
    /\ UNCHANGED cfgvars

DropDatabase ==
    /\ \E n \in pg_database : pg_database' = pg_database \ {n}
    /\ UNCHANGED <<reachable, dbpc, db_name, conn, used, rows, found, retval>>
    /\ UNCHANGED cfgvars

NextDb ==
    \/ \E c \in Callers : Call(c) \/ Connect(c) \/ Execute(c) \/ Return(c) \/ Resume(c)
    \/ ServerToggle
    \/ CreateDatabase
    \/ DropDatabase

SpecDb == InitDb /\ [][NextDb]_vars

---------------------------------------------------------------------------
(* Properties *)

Constructed  == last # NoResult
SettingsKey  == settings["odds_api_key"]
ErrorLocs    == {e.loc : e \in last.result.errors}
ValidSport(v) == (v.t = "str" /\ v.s \in SportsValues) \/ v.t = "Sport"
RequiredKeys(m) ==
    LET fields == ModelFields(m, "") IN
    {fields[i].key : i \in {j \in 1..Len(fields) : fields[j].default = <<>>}}

\* C1: every constructed record carries the settings' API key, whatever the
\* caller's mapping holds (an api_key entry included).
C1_ApiKeyFromSettings ==
    (Constructed /\ last.result.status = "ok")
        => last.result.record["api_key"] = SettingsKey

C3_OddsDefaults ==
    (last.model = "Odds" /\ last.input = OnlySport(Str("soccer_epl"))) =>
        /\ last.result.status = "ok"
        /\ last.result.record["regions"] = List(<<"us">>)
        /\ last.result.record["dateFormat"] = Str("iso")
        /\ last.result.record["markets"] = Str("")

\* C4: a string outside the catalog's values as sport makes the construction
\* fail with a validation error on sport; a catalog value is accepted.
C4_SportCatalog ==
    (Constructed /\ last.input["sport"].t = "str") =>
        IF last.input["sport"].s \in SportsValues
        THEN "sport" \notin ErrorLocs
        ELSE /\ last.result.status = "ValidationError"
             /\ [loc |-> "sport", type |-> "enum"] \in last.result.errors

\* C5: Scores accepts daysFrom 1, 2, 3 and its omission, rejects every other
\* integer with a validation error on daysFrom, and no Scores record holds a
\* daysFrom outside [1,3].
C5_DaysFromRange ==
    (Constructed /\ last.model = "Scores") =>
        LET d == last.input["daysFrom"]
            r == last.result
        IN  /\ r.status = "ok" =>
                  \/ r.record["daysFrom"] = None
                  \/ r.record["daysFrom"].t = "int" /\ r.record["daysFrom"].i \in 1..3
            /\ (d.t = "int" /\ d.i \notin 1..3) =>
                  r.status = "ValidationError" /\ "daysFrom" \in ErrorLocs
            /\ (d = Absent \/ (d.t = "int" /\ d.i \in 1..3)) =>
                  /\ r.status \in {"ok", "ValidationError"}
                  /\ "daysFrom" \notin ErrorLocs
                  /\ (ValidSport(last.input["sport"])
                        /\ ExtraKeys(last.input) \subseteq {"daysFrom"}) =>
                        /\ r.status = "ok"
                        /\ r.record["daysFrom"] = IF d = Absent THEN None ELSE d

C5_Witness ==
    /\ last.model = "Scores"
    /\ last.input["sport"] = Str("soccer_epl")
    /\ last.input["daysFrom"] = Num(4)
    /\ last.result.status = "ValidationError"
    /\ ErrorLocs = {"daysFrom"}

C7_NoKeyNoSettings ==
    (environ["ODDS_API_KEY"] = <<>> /\ dotenv["ODDS_API_KEY"] = <<>> /\ pc # "start")
        => pc = "failed" /\ settings = NoSettings /\ ~Constructed

C7_Witness ==
    /\ environ["ODDS_API_KEY"] = <<>>
    /\ dotenv["ODDS_API_KEY"] = <<>>
    /\ pc = "failed"

\* C8: a value given under a wire alias is stored unchanged under the
\* normalized field, and a required field missing under its wire name makes
\* the construction fail with a validation error naming it.
C8_AliasMapping ==
    Constructed =>
        LET fields == ModelFields(last.model, SettingsKey.s)
            idx    == 1..Len(fields)
        IN  /\ last.result.status = "ok" =>
                  \A i \in idx :
                     (/\ fields[i].key \in {"region", "date_format", "odds_format",
                                             "event_id", "bookmaker"}
                      /\ last.input[fields[i].key] # Absent)
                        => last.result.record[fields[i].name] = last.input[fields[i].key]
            /\ \A i \in idx :
                  (fields[i].default = <<>> /\ last.input[fields[i].key] = Absent) =>
                     /\ last.result.status = "ValidationError"
                     /\ [loc |-> fields[i].key, type |-> "missing"] \in last.result.errors

\* C9: a completed database_exists returns true exactly when pg_database
\* held the name; every call takes one connection and holds none when it
\* completes, by return or by exception; a failed connect reaches the caller
\* as the connection error.
C9_DatabaseExists ==
    \A c \in Callers :
        /\ conn[c] \in {0, 1}
        /\ dbpc[c] = "done" =>
              /\ retval[c] = (IF found[c] THEN "True" ELSE "False")
              /\ used[c] = 1
              /\ conn[c] = 0
        /\ dbpc[c] = "raised" =>
              /\ retval[c] \in {"ConnectionError", "DBAPIError"}
              /\ retval[c] = "ConnectionError" <=> used[c] = 0
              /\ conn[c] = 0
        /\ dbpc[c] \in {"idle", "connect"} => conn[c] = 0

C9_Witness ==
    \E c \in Callers :
        /\ dbpc[c] = "done"
        /\ db_name[c] = "arbitrage"
        /\ retval[c] = "False"
        /\ ~found[c]
        /\ conn[c] = 0

\* C10: supplying an optional field's default value explicitly under its wire
\* name gives the same outcome as omitting the field.
C10_DefaultIsValidInput ==
    Constructed =>
        LET fields   == ModelFields(last.model, SettingsKey.s)
            supplied == {fields[i].key : i \in
                           {j \in 1..Len(fields) :
                               /\ fields[j].default # <<>>
                               /\ last.input[fields[j].key] = fields[j].default[1]}}
            omitted  == [k \in InputKeys |->
                           IF k \in supplied THEN Absent ELSE last.input[k]]
        IN  last.result = Construct(last.model, omitted, SettingsKey.s)

=============================================================================
